---- MODULE Spec2Model ----
(***************************************************************************)
(* md2docx (convert.py): discovery of Markdown files, derivation of the    *)
(* output paths, the conversion call and the command-line entry point.     *)
(*                                                                         *)
(* A file name is a sequence of one-character strings, a path is a         *)
(* sequence of names (pathlib's parts).  pathlib is modelled in its POSIX  *)
(* flavour: os.sep is "/", names and glob patterns are case-sensitive.     *)
(***************************************************************************)
EXTENDS Naturals, Integers, Sequences, FiniteSets, TLC

MaxFiles == 3                    \* entries placed under the root folder

None == <<>>                     \* Python's None, for optional paths

\* ------------------------------------------------------------------------
\* Names and paths of the bounded file system
\* ------------------------------------------------------------------------
DotMd   == <<".", "m", "d">>
DotDocx == <<".", "d", "o", "c", "x">>

NameA    == <<"a">>
NameB    == <<"b">>
NameA_B  == <<"a", "_", "b">>
NameXmd  == <<"x", ".", "m", "d">>
NameXMD  == <<"x", ".", "M", "D">>
NameAXmd == <<"a", "_", "x", ".", "m", "d">>
NameXtxt == <<"x", ".", "t", "x", "t">>

RootDir == << <<"r">> >>         \* the resolved --folder argument
OutDir  == << <<"o">> >>         \* the resolved --output-dir argument
RefDoc  == << <<"s", ".", "d", "o", "c", "x">> >>   \* --reference-doc
OutFile == OutDir \o << <<"o", ".", "d", "o", "c", "x">> >>  \* --output

SubDirs == { <<NameA>>, <<NameA_B>>, <<NameA, NameB>> }

\* relative paths of the regular files that may lie under the root
FileCandidates ==
    { <<n>> : n \in {NameXmd, NameXMD, NameAXmd, NameXtxt} }
    \cup { d \o <<n>> : d \in SubDirs, n \in {NameXmd, NameXMD} }

\* relative paths of the (empty) directories that may lie under the root
DirCandidates == { <<NameXmd>> }

\* ------------------------------------------------------------------------
\* str and pathlib primitives
\* ------------------------------------------------------------------------
Ord(c) ==
    CASE c = "." -> 46 [] c = "/" -> 47 [] c = "D" -> 68 [] c = "M" -> 77
      [] c = "_" -> 95 [] c = "a" -> 97 [] c = "b" -> 98 [] c = "c" -> 99
      [] c = "d" -> 100 [] c = "m" -> 109 [] c = "o" -> 111
      [] c = "r" -> 114 [] c = "s" -> 115 [] c = "t" -> 116
      [] c = "x" -> 120

LowerChar(c) == CASE c = "D" -> "d" [] c = "M" -> "m" [] OTHER -> c

\* str.lower()
Lower(s) == [k \in 1..Len(s) |-> LowerChar(s[k])]

\* str.rfind(c), 1-based; 0 when c does not occur
RFind(s, c) ==
    LET hits == {k \in 1..Len(s) : s[k] = c}
    IN  IF hits = {} THEN 0 ELSE CHOOSE k \in hits : \A h \in hits : h <= k

\* str < str (code point order)
StrLess(s, t) ==
    \E k \in 1..(Len(t)) :
        /\ \A j \in 1..(k-1) : j <= Len(s) /\ s[j] = t[j]
        /\ \/ Len(s) = k - 1
           \/ Len(s) >= k /\ Ord(s[k]) < Ord(t[k])

\* PurePath.__lt__: the lists of parts are compared element by element
PathLess(p, q) ==
    \E k \in 1..(Len(q)) :
        /\ \A j \in 1..(k-1) : j <= Len(p) /\ p[j] = q[j]
        /\ \/ Len(p) = k - 1
           \/ Len(p) >= k /\ StrLess(p[k], q[k])

\* sorted(paths)
RECURSIVE sorted(_)
sorted(S) ==
    IF S = {} THEN <<>>
    ELSE LET m == CHOOSE m \in S : \A o \in S \ {m} : PathLess(m, o)
         IN  <<m>> \o sorted(S \ {m})

\* PurePath.name / PurePath.parent
Name(p)   == p[Len(p)]
Parent(p) == SubSeq(p, 1, Len(p) - 1)

\* PurePath.suffix: from the last dot, unless that dot starts or ends the name
Suffix(p) ==
    LET n == Name(p)
        i == RFind(n, ".")
    IN  IF 1 < i /\ i < Len(n) THEN SubSeq(n, i, Len(n)) ELSE <<>>

\* with_suffix that appends the new suffix to the whole name
with_suffix_Append(p, suffix) ==
    Parent(p) \o <<Name(p) \o suffix>>

\* PurePath.with_suffix(suffix): the old suffix is dropped, the new appended
with_suffix(p, suffix) ==
    LET n == Name(p)
        stem == SubSeq(n, 1, Len(n) - Len(Suffix(p)))
    IN  Parent(p) \o <<stem \o suffix>>

\* str(path) of a relative path: the parts joined by os.sep
RECURSIVE Str(_)
Str(p) ==
    IF Len(p) = 0 THEN <<>>
    ELSE IF Len(p) = 1 THEN p[1]
    ELSE p[1] \o <<"/">> \o Str(Tail(p))

\* str.replace(old, new) for one-character old and new
Replace(s, old, new) == [k \in 1..Len(s) |-> IF s[k] = old THEN new ELSE s[k]]

\* PurePath.relative_to(folder); the ValueError case is reported as None
IsUnder(p, folder) ==
    Len(p) >= Len(folder) /\ SubSeq(p, 1, Len(folder)) = folder
relative_to(p, folder) ==
    IF IsUnder(p, folder) THEN SubSeq(p, Len(folder) + 1, Len(p)) ELSE None

\* fnmatch of a name against the pattern "*.md" (case-sensitive on POSIX)
MatchesStarMd(n) ==
    Len(n) >= Len(DotMd) /\ SubSeq(n, Len(n) - Len(DotMd) + 1, Len(n)) = DotMd

\* ------------------------------------------------------------------------
\* State
\* ------------------------------------------------------------------------
VARIABLES
    args,        \* the parsed command line (argparse namespace)
    files,       \* paths that are regular files
    dirs,        \* paths that are directories
    content,     \* written output file -> the source it was converted from
    importable,  \* whether "import pypandoc" succeeds in this installation
    pc,          \* position of main: "main", "loop", "returned", "raised", "exit"
    md_files,    \* run_folder: the discovered inputs
    it,          \* run_folder: number of completed iterations of the for loop
    out_paths,   \* run_folder: the accumulated result list
    out_list,    \* main: the value returned by run_folder
    out,         \* main: the value returned by run_single_file
    exc,         \* the exception being propagated
    calls,       \* history of the convert_md_to_docx calls made
    stdout,      \* lines printed to standard output
    stderr,      \* lines printed to standard error
    exit,        \* process exit status, -1 while running
    traceback    \* kind of the exception that left main unhandled

vars == <<args, files, dirs, content, importable, pc, md_files, it,
          out_paths, out_list, out, exc, calls, stdout, stderr, exit,
          traceback>>

NoExc == [kind |-> "none", cause |-> "none"]

\* outcomes of pypandoc.convert_file: it returns after writing the output,
\* or raises RuntimeError (Pandoc failed) or OSError (no Pandoc executable)
EngineOutcomes == {"ok", "RuntimeError", "OSError"}

\* except (FileNotFoundError, NotADirectoryError, RuntimeError) in main
Handled == {"FileNotFoundError", "NotADirectoryError", "RuntimeError"}

\* ------------------------------------------------------------------------
\* File system
\* ------------------------------------------------------------------------
is_file(p) == p \in files
is_dir(p)  == p \in dirs

\* the proper and improper ancestors of a path, the file system root excluded
Prefixes(p) == { SubSeq(p, 1, k) : k \in 1..Len(p) }

\* Path.mkdir(parents=True, exist_ok=True)
mkdir(p) ==
    IF is_dir(p) THEN [raised |-> "none", created |-> {}]
    ELSE IF is_file(p) THEN [raised |-> "FileExistsError", created |-> {}]
    ELSE IF \E a \in Prefixes(p) : is_file(a)
         THEN [raised |-> "NotADirectoryError", created |-> {}]
    ELSE [raised |-> "none", created |-> Prefixes(p) \ dirs]

\* folder.iterdir()
iterdir(folder) == { p \in files \cup dirs : Parent(p) = folder }

\* folder.rglob("*.md"): every entry below folder, file or directory,
\* whose name matches the pattern
rglob(folder) ==
    { p \in files \cup dirs :
        IsUnder(p, folder) /\ Len(p) > Len(folder) /\ MatchesStarMd(Name(p)) }

\* ------------------------------------------------------------------------
\* collect_md_files
\* ------------------------------------------------------------------------
\* collect_md_files without the is_dir check of lines 93-94
collect_md_files_NoDirCheck(folder, recursive) ==
    LET paths ==
            IF recursive
            THEN rglob(folder)
            ELSE { p \in iterdir(folder) :
                     is_file(p) /\ Lower(Suffix(p)) = DotMd }
    IN  [raised |-> "none", paths |-> sorted(paths)]

collect_md_files(folder, recursive) ==
    IF ~ is_dir(folder)
    THEN [raised |-> "NotADirectoryError", paths |-> <<>>]
    ELSE LET paths ==
                 IF recursive
                 THEN rglob(folder)
                 ELSE { p \in iterdir(folder) :
                          is_file(p) /\ Lower(Suffix(p)) = DotMd }
         IN  [raised |-> "none", paths |-> sorted(paths)]

\* ------------------------------------------------------------------------
\* convert_md_to_docx: what one call does, given what convert_file would do
\* ------------------------------------------------------------------------
Call(md_path, docx_path, raised, cause, made, mk, imp, eng) ==
    [md_path |-> md_path, docx_path |-> docx_path, raised |-> raised,
     cause |-> cause,
     created |-> made,          \* directories the call created
     mkdir |-> mk,              \* line 55 was reached
     reached_import |-> imp,    \* line 58 was reached
     engine |-> eng]            \* pypandoc.convert_file was invoked

\* convert_md_to_docx with the output directory created before the checks
convert_md_to_docx_MkdirFirst(md_path, docx_path, reference_doc, engine) ==
    LET m == mkdir(Parent(docx_path))
    IN  IF m.raised # "none"
        THEN Call(md_path, docx_path, m.raised, "none", {}, TRUE, FALSE, FALSE)
        ELSE IF ~ is_file(md_path)
        THEN Call(md_path, docx_path, "FileNotFoundError", "none", m.created,
                  TRUE, FALSE, FALSE)
        ELSE IF reference_doc # None /\ ~ is_file(reference_doc)
        THEN Call(md_path, docx_path, "FileNotFoundError", "none", m.created,
                  TRUE, FALSE, FALSE)
        ELSE IF ~ importable
        THEN Call(md_path, docx_path, "RuntimeError", "none", m.created,
                  TRUE, TRUE, FALSE)
        ELSE IF engine # "ok"
        THEN Call(md_path, docx_path, engine, "none", m.created,
                  TRUE, TRUE, TRUE)
        ELSE Call(md_path, docx_path, "none", "none", m.created,
                  TRUE, TRUE, TRUE)

convert_md_to_docx(md_path, docx_path, reference_doc, engine) ==
    IF ~ is_file(md_path)
    THEN Call(md_path, docx_path, "FileNotFoundError", "none", {},
              FALSE, FALSE, FALSE)
    ELSE IF reference_doc # None /\ ~ is_file(reference_doc)
    THEN Call(md_path, docx_path, "FileNotFoundError", "none", {},
              FALSE, FALSE, FALSE)
    ELSE LET m == mkdir(Parent(docx_path))
         IN  IF m.raised # "none"
             THEN Call(md_path, docx_path, m.raised, "none", {},
                       TRUE, FALSE, FALSE)
             ELSE IF ~ importable
             \* raise RuntimeError(...) from None
             THEN Call(md_path, docx_path, "RuntimeError", "none", m.created,
                       TRUE, TRUE, FALSE)
             \* whatever convert_file raises propagates as it is
             ELSE IF engine # "ok"
             THEN Call(md_path, docx_path, engine, "none", m.created,
                       TRUE, TRUE, TRUE)
             ELSE Call(md_path, docx_path, "none", "none", m.created,
                       TRUE, TRUE, TRUE)

\* the effect of a call on the file system
FilesAfter(c) == IF c.raised = "none" THEN files \cup {c.docx_path} ELSE files
DirsAfter(c)  == dirs \cup c.created
ContentAfter(c) ==
    IF c.raised = "none"
    THEN [p \in DOMAIN content \cup {c.docx_path} |->
            IF p = c.docx_path THEN c.md_path ELSE content[p]]
    ELSE content

\* ------------------------------------------------------------------------
\* run_folder: the destination of one discovered file (lines 146-156)
\* ------------------------------------------------------------------------
\* docx_path_of naming the output after the file name alone
docx_path_of_NameOnly(md_path, folder, output_dir) ==
    IF output_dir # None
    THEN output_dir \o <<Name(with_suffix(<<Name(md_path)>>, <<>>)) \o DotDocx>>
    ELSE with_suffix(md_path, DotDocx)

\* docx_path_of keeping the relative directories below the output directory
docx_path_of_KeepTree(md_path, folder, output_dir) ==
    IF output_dir # None
    THEN LET rel == relative_to(md_path, folder)
         IN  IF rel = None THEN None
             ELSE output_dir \o with_suffix(rel, DotDocx)
    ELSE with_suffix(md_path, DotDocx)

docx_path_of(md_path, folder, output_dir) ==
    IF output_dir # None
    THEN LET rel == relative_to(md_path, folder)
         IN  IF rel = None THEN None   \* str has no with_suffix
             ELSE LET stem == Replace(Str(with_suffix(rel, <<>>)), "/", "_")
                  IN  output_dir \o <<stem \o DotDocx>>
    ELSE with_suffix(md_path, DotDocx)

\* ------------------------------------------------------------------------
\* Initial states: a command line and the file system it is run against
\* ------------------------------------------------------------------------
Line(text, path) == [text |-> text, path |-> path]

\* the directories that must exist for the entries to exist
AncestorDirs(entries) ==
    UNION { { RootDir \o SubSeq(e, 1, k) : k \in 1..(Len(e) - 1) } :
            e \in entries }

\* the trees of at most MaxFiles entries; no path is both file and directory
Trees ==
    { t \in [f : SUBSET FileCandidates, d : SUBSET DirCandidates] :
        /\ Cardinality(t.f) + Cardinality(t.d) <= MaxFiles
        /\ t.f \cap t.d = {} }

Init ==
    \E rootKind \in {"dir", "file", "absent"}, outKind \in {"dir", "file", "absent"},
       refKind \in {"none", "file", "absent"}, mode \in {"file", "folder"},
       useOut \in BOOLEAN, recursive \in BOOLEAN, imp \in BOOLEAN, tree \in Trees :
        LET fileEntries == tree.f
            dirEntries  == tree.d
        IN
        /\ rootKind # "dir" => fileEntries \cup dirEntries = {}
        /\ ~ useOut => outKind = "absent"
        /\ mode = "file" =>
              ~ recursive /\ fileEntries \cup dirEntries \subseteq {<<NameXmd>>}
        /\ args = [file |-> IF mode = "file" THEN RootDir \o <<NameXmd>> ELSE None,
                   folder |-> IF mode = "folder" THEN RootDir ELSE None,
                   output |-> IF mode = "file" /\ useOut THEN OutFile ELSE None,
                   output_dir |-> IF mode = "folder" /\ useOut THEN OutDir ELSE None,
                   recursive |-> recursive,
                   reference_doc |-> IF refKind = "none" THEN None ELSE RefDoc]
        /\ files = { RootDir \o e : e \in fileEntries }
                     \cup (IF rootKind = "file" THEN {RootDir} ELSE {})
                     \cup (IF outKind = "file" THEN {OutDir} ELSE {})
                     \cup (IF refKind = "file" THEN {RefDoc} ELSE {})
        /\ dirs = { RootDir \o e : e \in dirEntries }
                    \cup AncestorDirs(fileEntries \cup dirEntries)
                    \cup (IF rootKind = "dir" THEN {RootDir} ELSE {})
                    \cup (IF outKind = "dir" THEN {OutDir} ELSE {})
        /\ importable = imp
        /\ content = <<>>
        /\ pc = "main"
        /\ md_files = <<>>
        /\ it = 0
        /\ out_paths = <<>>
        /\ out_list = <<>>
        /\ out = None
        /\ exc = NoExc
        /\ calls = <<>>
        /\ stdout = <<>>
        /\ stderr = <<>>
        /\ exit = -1
        /\ traceback = "none"

\* ------------------------------------------------------------------------
\* run_single_file (called from main, lines 223-226)
\* ------------------------------------------------------------------------
RunSingleFile ==
    /\ pc = "main"
    /\ args.file # None
    /\ \E engine \in EngineOutcomes :
        LET out_path == IF args.output # None THEN args.output
                        ELSE with_suffix(args.file, DotDocx)
            c == convert_md_to_docx(args.file, out_path, args.reference_doc, engine)
        IN  /\ calls' = Append(calls, c)
            /\ files' = FilesAfter(c)
            /\ dirs' = DirsAfter(c)
            /\ content' = ContentAfter(c)
            /\ IF c.raised = "none"
               THEN /\ out' = out_path
                    /\ pc' = "returned"
                    /\ exc' = exc
               ELSE /\ out' = out
                    /\ pc' = "raised"
                    /\ exc' = [kind |-> c.raised, cause |-> c.cause]
    /\ UNCHANGED <<args, importable, md_files, it, out_paths, out_list,
                   stdout, stderr, exit, traceback>>

\* ------------------------------------------------------------------------
\* run_folder, up to the for loop (lines 138-143)
\* ------------------------------------------------------------------------
RunFolderCollect ==
    /\ pc = "main"
    /\ args.file = None
    /\ LET c == collect_md_files(args.folder, args.recursive)
       IN  IF c.raised # "none"
           THEN /\ exc' = [kind |-> c.raised, cause |-> "none"]
                /\ pc' = "raised"
                /\ UNCHANGED <<md_files, out_list>>
           ELSE IF c.paths = <<>>
           THEN /\ out_list' = <<>>
                /\ pc' = "returned"
                /\ UNCHANGED <<md_files, exc>>
           ELSE /\ md_files' = c.paths
                /\ pc' = "loop"
                /\ UNCHANGED <<out_list, exc>>
    /\ UNCHANGED <<args, files, dirs, content, importable, it, out_paths, out,
                   calls, stdout, stderr, exit, traceback>>

\* LoopStep with a failed call skipped instead of propagated
LoopStep_ContinueOnError(c) ==
    IF c.raised = "none"
    THEN [pc |-> "loop", it |-> it + 1,
          out_paths |-> Append(out_paths, c.docx_path), exc |-> exc]
    ELSE [pc |-> "loop", it |-> it + 1, out_paths |-> out_paths, exc |-> exc]

\* LoopStep with the destination appended before the call is known to succeed
LoopStep_AppendFirst(c) ==
    IF c.raised = "none"
    THEN [pc |-> "loop", it |-> it + 1,
          out_paths |-> Append(out_paths, c.docx_path), exc |-> exc]
    ELSE [pc |-> "raised", it |-> it,
          out_paths |-> Append(out_paths, c.docx_path),
          exc |-> [kind |-> c.raised, cause |-> c.cause]]

\* lines 158-159: the call either returns, and its destination is appended,
\* or raises, and the exception leaves the loop and run_folder
LoopStep(c) ==
    IF c.raised = "none"
    THEN [pc |-> "loop", it |-> it + 1,
          out_paths |-> Append(out_paths, c.docx_path), exc |-> exc]
    ELSE [pc |-> "raised", it |-> it, out_paths |-> out_paths,
          exc |-> [kind |-> c.raised, cause |-> c.cause]]

\* one iteration of the for loop of run_folder (lines 145-159)
RunFolderIterate ==
    /\ pc = "loop"
    /\ it < Len(md_files)
    /\ \E engine \in EngineOutcomes :
        LET md_path == md_files[it + 1]
            docx_path == docx_path_of(md_path, args.folder, args.output_dir)
        IN  IF docx_path = None
            THEN /\ exc' = [kind |-> "AttributeError", cause |-> "none"]
                 /\ pc' = "raised"
                 /\ UNCHANGED <<files, dirs, content, it, out_paths, calls>>
            ELSE LET c == convert_md_to_docx(md_path, docx_path,
                                             args.reference_doc, engine)
                     n == LoopStep(c)
                 IN  /\ calls' = Append(calls, c)
                     /\ files' = FilesAfter(c)
                     /\ dirs' = DirsAfter(c)
                     /\ content' = ContentAfter(c)
                     /\ pc' = n.pc
                     /\ it' = n.it
                     /\ out_paths' = n.out_paths
                     /\ exc' = n.exc
    /\ UNCHANGED <<args, importable, md_files, out_list, out, stdout, stderr,
                   exit, traceback>>

\* the end of the for loop: return out_paths (line 161)
RunFolderReturn ==
    /\ pc = "loop"
    /\ it = Len(md_files)
    /\ out_list' = out_paths
    /\ pc' = "returned"
    /\ UNCHANGED <<args, files, dirs, content, importable, md_files, it,
                   out_paths, out, exc, calls, stdout, stderr, exit, traceback>>

\* ------------------------------------------------------------------------
\* main: reporting the result (lines 227, 235-239, 244)
\* ------------------------------------------------------------------------
MainReport ==
    /\ pc = "returned"
    /\ IF args.file # None
       THEN /\ stdout' = Append(stdout, Line("Created", out))
            /\ exit' = 0
            /\ UNCHANGED stderr
       ELSE IF out_list = <<>>
       THEN /\ stderr' = Append(stderr, Line("No .md files found.", None))
            /\ exit' = 1
            /\ UNCHANGED stdout
       ELSE /\ stdout' = stdout \o [k \in 1..Len(out_list) |->
                                      Line("Created", out_list[k])]
            /\ exit' = 0
            /\ UNCHANGED stderr
    /\ pc' = "exit"
    /\ UNCHANGED <<args, files, dirs, content, importable, md_files, it,
                   out_paths, out_list, out, exc, calls, traceback>>

\* main: the except clause (lines 240-242), or the exception leaves main
MainExcept ==
    /\ pc = "raised"
    /\ IF exc.kind \in Handled
       THEN /\ stderr' = Append(stderr, Line("Error", None))
            /\ exit' = 1
            /\ UNCHANGED traceback
       ELSE /\ traceback' = exc.kind
            /\ exit' = 1
            /\ UNCHANGED stderr
    /\ pc' = "exit"
    /\ UNCHANGED <<args, files, dirs, content, importable, md_files, it,
                   out_paths, out_list, out, exc, calls, stdout>>

Next ==
    \/ RunSingleFile
    \/ RunFolderCollect
    \/ RunFolderIterate
    \/ RunFolderReturn
    \/ MainReport
    \/ MainExcept

Spec == Init /\ [][Next]_vars

\* ------------------------------------------------------------------------
\* Properties
\* ------------------------------------------------------------------------
FolderMode == args.folder # None

\* the destination run_folder derives for the k-th discovered file
Dest(k) == docx_path_of(md_files[k], args.folder, args.output_dir)

IsPrefix(s, t) == Len(s) <= Len(t) /\ SubSeq(t, 1, Len(s)) = s

\* C1: folder mode is fail-fast.  When the call for the k-th discovered file
\* fails, it is the last call made: the files before it were converted in
\* discovery order and their outputs are on disk, no later file is ever
\* passed to convert_md_to_docx, run_folder raises instead of returning a
\* list, and the run ends with exit status 1 and nothing reported as created.
C1_FailFast ==
    FolderMode =>
        \A k \in 1..Len(calls) :
            calls[k].raised # "none" =>
                /\ k = Len(calls)
                /\ k <= Len(md_files)
                /\ calls[k].md_path = md_files[k]
                /\ \A j \in 1..(k-1) :
                      /\ calls[j].md_path = md_files[j]
                      /\ calls[j].raised = "none"
                      /\ calls[j].docx_path = Dest(j)
                      /\ is_file(Dest(j))
                /\ \A j \in (k+1)..Len(md_files) :
                      \A m \in 1..Len(calls) : calls[m].md_path # md_files[j]
                /\ pc \in {"raised", "exit"}
                /\ exc.kind = calls[k].raised
                /\ out_list = <<>>
                /\ pc = "exit" => exit = 1 /\ stdout = <<>>

\* a finished run in which the second of three discovered files failed
C1_Witness ==
    /\ FolderMode
    /\ pc = "exit"
    /\ Len(md_files) = 3
    /\ Len(calls) = 2
    /\ calls[1].raised = "none"
    /\ is_file(calls[1].docx_path)
    /\ calls[2].raised # "none"
    /\ exit = 1

\* C2: convert_md_to_docx checks its preconditions before any side effect.
\* Every call, single or in a batch, whose source is not a regular file or
\* whose style reference is given and is not a regular file raised
\* FileNotFoundError without reaching mkdir, creating a directory, invoking
\* the engine or writing its destination.
C2_PreconditionsFirst ==
    \A k \in 1..Len(calls) :
        LET c == calls[k]
        IN  (\/ ~ is_file(c.md_path)
             \/ args.reference_doc # None /\ ~ is_file(args.reference_doc))
            => /\ c.raised = "FileNotFoundError"
               /\ ~ c.mkdir
               /\ ~ c.engine
               /\ c.created = {}
               /\ c.docx_path \in DOMAIN content
                     => content[c.docx_path] # c.md_path
               /\ exc.kind = "FileNotFoundError"

\* a batch with an output directory that does not exist and a missing style
\* reference: the first call failed and the directory was not created
C2_Witness ==
    /\ FolderMode
    /\ args.output_dir # None
    /\ args.reference_doc # None
    /\ ~ is_file(args.reference_doc)
    /\ Len(calls) = 1
    /\ calls[1].raised = "FileNotFoundError"
    /\ is_file(calls[1].md_path)
    /\ ~ is_dir(args.output_dir)
    /\ ~ is_file(args.output_dir)
    /\ pc = "exit"

\* C7: when the folder-mode root is not a directory, run_folder raises
\* NotADirectoryError: nothing is enumerated, no call is made, the file
\* system is left as it was, and main prints one error line and exits 1.
C7_InvalidRootState ==
    (FolderMode /\ ~ is_dir(args.folder) /\ pc # "main") =>
        /\ exc.kind = "NotADirectoryError"
        /\ md_files = <<>>
        /\ calls = <<>>
        /\ content = <<>>
        /\ pc \in {"raised", "exit"}
        /\ pc = "exit" =>
              /\ exit = 1
              /\ traceback = "none"
              /\ Len(stderr) = 1
              /\ stderr[1].text = "Error"
              /\ stdout = <<>>

C7_InvalidRoot ==
    /\ [] C7_InvalidRootState
    /\ [][(FolderMode /\ ~ is_dir(args.folder))
            => (files' = files /\ dirs' = dirs)]_vars

\* a finished folder-mode run whose root is a regular file
C7_Witness ==
    /\ FolderMode
    /\ is_file(args.folder)
    /\ args.output_dir # None
    /\ pc = "exit"
    /\ exit = 1

\* C8: the accumulated list is at every point the sequence of destinations
\* derived from the discovered files whose call returned, in discovery
\* order; it only grows; after a full success the returned list has one
\* element per discovered file.
C8_ResultListState ==
    FolderMode =>
        /\ Len(out_paths) = Cardinality({k \in 1..Len(calls) : calls[k].raised = "none"})
        /\ Len(out_paths) <= Len(md_files)
        /\ \A k \in 1..Len(out_paths) :
              /\ out_paths[k] = Dest(k)
              /\ calls[k].raised = "none"
              /\ calls[k].md_path = md_files[k]
              /\ calls[k].docx_path = out_paths[k]
        /\ (pc \in {"returned", "exit"} /\ exc.kind = "none") =>
              /\ out_list = out_paths
              /\ Len(out_list) = Len(md_files)

C8_ResultList ==
    /\ [] C8_ResultListState
    /\ [][IsPrefix(out_paths, out_paths')]_vars

\* a batch of three files that succeeded and was returned
C8_Witness ==
    /\ FolderMode
    /\ pc = "returned"
    /\ Len(md_files) = 3
    /\ Len(out_list) = 3

\* ------------------------------------------------------------------------
\* The discovery rule and the flattening, stated on names directly
\* ------------------------------------------------------------------------
\* a regular file whose name ends in ".md" in any letter case
IsMdFile(p) ==
    LET n == Name(p)
    IN  /\ is_file(p)
        /\ Len(n) > Len(DotMd)
        /\ Lower(SubSeq(n, Len(n) - Len(DotMd) + 1, Len(n))) = DotMd

\* the matching files below the root: direct children, or at any depth
Matching(recursive) ==
    { p \in files :
        /\ IsMdFile(p)
        /\ IF recursive
           THEN IsUnder(p, args.folder) /\ Len(p) > Len(args.folder)
           ELSE Parent(p) = args.folder }

Range(s) == { s[k] : k \in 1..Len(s) }

\* a discovered name without its three-character extension
Stem(n) == SubSeq(n, 1, Len(n) - Len(DotMd))

\* the parts of a discovered path relative to the root
Rel(p) == SubSeq(p, Len(args.folder) + 1, Len(p))

\* names joined by underscores
RECURSIVE JoinUnderscore(_)
JoinUnderscore(parts) ==
    IF Len(parts) = 0 THEN <<>>
    ELSE IF Len(parts) = 1 THEN parts[1]
    ELSE parts[1] \o <<"_">> \o JoinUnderscore(Tail(parts))

\* the relative path of a discovered file, extension stripped, flattened
Flat(p) == JoinUnderscore(Parent(Rel(p)) \o <<Stem(Name(p))>>)

Completed == pc \in {"returned", "exit"} /\ exc.kind = "none" /\ md_files # <<>>

\* C3: collect_md_files returns, sorted by path, exactly the regular files
\* whose extension is .md in any letter case: the direct children of the
\* root, or with recursive=True those at any depth (a superset).
C3_DiscoveryExact ==
    (FolderMode /\ is_dir(args.folder) /\ pc # "main") =>
        /\ md_files = sorted(Matching(args.recursive))
        /\ Matching(FALSE) \subseteq Matching(args.recursive)
        /\ args.recursive => Matching(FALSE) \subseteq Range(md_files)

\* C4: every failure at the engine boundary (the import fails, or
\* convert_file raises) leaves convert_md_to_docx as RuntimeError, and main
\* handles it: one error line, exit status 1, nothing left unhandled.
C4_EngineFailureIsRuntimeError ==
    \A k \in 1..Len(calls) :
        (calls[k].reached_import /\ calls[k].raised # "none") =>
            /\ calls[k].raised = "RuntimeError"
            /\ pc = "exit" =>
                  /\ exit = 1
                  /\ traceback = "none"
                  /\ Len(stderr) = 1

\* C5: folder mode over an existing directory with no matching file returns
\* an empty list without any conversion attempt or directory creation, and
\* main ends with exit status 1, no unhandled error and no Created line.
C5_EmptyFolder ==
    (FolderMode /\ is_dir(args.folder) /\ Matching(args.recursive) = {}
       /\ pc # "main") =>
        /\ calls = <<>>
        /\ exc.kind = "none"
        /\ out_list = <<>>
        /\ pc \in {"returned", "exit"}
        /\ pc = "exit" =>
              /\ exit = 1
              /\ traceback = "none"
              /\ stdout = <<>>

\* two discovered files of the same name in different subdirectories
SameNameOtherSubdir(i, j) ==
    /\ i < j
    /\ Len(Rel(md_files[i])) > 1
    /\ Len(Rel(md_files[j])) > 1
    /\ Name(md_files[i]) = Name(md_files[j])
    /\ Parent(md_files[i]) # Parent(md_files[j])

\* both get the underscore-joined name, the two differ, and both exist
\* once the run has succeeded
DistinctFlatOutputs(i, j) ==
    /\ Dest(i) = args.output_dir \o <<Flat(md_files[i]) \o DotDocx>>
    /\ Dest(j) = args.output_dir \o <<Flat(md_files[j]) \o DotDocx>>
    /\ Dest(i) # Dest(j)
    /\ Completed =>
          /\ out_list[i] = Dest(i)
          /\ out_list[j] = Dest(j)
          /\ is_file(Dest(i))
          /\ is_file(Dest(j))

\* C6 as stated: with an output directory, any two discovered inputs of the
\* same name in different subdirectories of the root get distinct
\* underscore-joined destinations, both present after a successful run.
C6_Original ==
    (FolderMode /\ args.output_dir # None) =>
        \A i, j \in 1..Len(md_files) :
            SameNameOtherSubdir(i, j) => DistinctFlatOutputs(i, j)

\* C6 (amended): the same, for subdirectories whose relative paths still
\* differ once their separators are replaced by underscores, as those of
\* two direct children of the root always do.
C6_DistinctUnlessDirsFlattenAlike ==
    (FolderMode /\ args.output_dir # None) =>
        \A i, j \in 1..Len(md_files) :
            (/\ SameNameOtherSubdir(i, j)
             /\ JoinUnderscore(Parent(Rel(md_files[i])))
                  # JoinUnderscore(Parent(Rel(md_files[j]))))
            => DistinctFlatOutputs(i, j)

\* a/x.md and a_b/x.md converted into the output directory
C6_Witness ==
    /\ FolderMode
    /\ args.output_dir # None
    /\ Completed
    /\ md_files = <<RootDir \o <<NameA, NameXmd>>, RootDir \o <<NameA_B, NameXmd>>>>
    /\ is_file(OutDir \o << <<"a", "_", "x">> \o DotDocx >>)
    /\ is_file(OutDir \o << <<"a", "_", "b", "_", "x">> \o DotDocx >>)

\* the last discovered file, among the first n, that flattens like the k-th
LastFlatTwin(k, n) ==
    CHOOSE j \in k..n :
        /\ Flat(md_files[j]) = Flat(md_files[k])
        /\ \A m \in (j+1)..n : Flat(md_files[m]) # Flat(md_files[k])

\* C9: with an output directory, two discovered paths that flatten to the
\* same string are both converted to the same destination, the later call
\* overwriting the earlier output; the batch completes, the returned list
\* holds that destination twice and fewer files exist than it has entries.
C9_FlattenCollision ==
    (FolderMode /\ args.output_dir # None) =>
        \A i, j \in 1..Len(md_files) :
            (i < j /\ Flat(md_files[i]) = Flat(md_files[j])) =>
                /\ j <= Len(calls) =>
                      /\ calls[j].docx_path = calls[i].docx_path
                      /\ calls[i].raised = "none"
                /\ j <= Len(out_paths) =>
                      /\ out_paths[i] = out_paths[j]
                      /\ calls[i].engine /\ calls[j].engine
                      /\ content[out_paths[i]]
                           = md_files[LastFlatTwin(i, Len(out_paths))]
                /\ Completed =>
                      /\ out_list[i] = out_list[j]
                      /\ Cardinality({p \in files : Parent(p) = args.output_dir})
                           < Len(out_list)
                      /\ pc = "exit" => exit = 0 /\ Len(stdout) = Len(md_files)

\* a/x.md and a_x.md both converted to a_x.docx, which holds the second
C9_Witness ==
    /\ FolderMode
    /\ args.output_dir # None
    /\ pc = "exit"
    /\ exit = 0
    /\ md_files = <<RootDir \o <<NameA, NameXmd>>, RootDir \o <<NameAXmd>>>>
    /\ out_list[1] = out_list[2]
    /\ content[out_list[1]] = md_files[2]
    /\ Cardinality({p \in files : Parent(p) = OutDir}) = 1

\* two discovered files in one directory that differ only in the extension
SameButExtension(p, q) ==
    Parent(p) = Parent(q) /\ Stem(Name(p)) = Stem(Name(q))

LastExtTwin(k, n) ==
    CHOOSE j \in k..n :
        /\ j = k \/ SameButExtension(md_files[j], md_files[k])
        /\ \A m \in (j+1)..n : ~ SameButExtension(md_files[m], md_files[k])

\* C10 as stated: with no output directory, distinct discovered inputs get
\* pairwise distinct destinations and no output is overwritten later in
\* the run.
C10_Original ==
    (FolderMode /\ args.output_dir = None) =>
        /\ \A i, j \in 1..Len(md_files) : i < j => Dest(i) # Dest(j)
        /\ \A k \in 1..Len(out_paths) : content[out_paths[k]] = md_files[k]

\* C10 (amended): with no output directory, two distinct discovered inputs
\* get the same destination exactly when they lie in one directory and
\* differ only in their extension (a.md and a.MD); the later conversion then
\* overwrites the earlier output, and no other output is overwritten.
C10_DistinctUnlessSameStem ==
    (FolderMode /\ args.output_dir = None) =>
        /\ \A i, j \in 1..Len(md_files) :
              i < j => (Dest(i) = Dest(j)
                          <=> SameButExtension(md_files[i], md_files[j]))
        /\ \A k \in 1..Len(out_paths) :
              content[out_paths[k]] = md_files[LastExtTwin(k, Len(out_paths))]

\* x.MD and x.md, both direct children, converted to the one x.docx
C10_Witness ==
    /\ FolderMode
    /\ args.output_dir = None
    /\ ~ args.recursive
    /\ Completed
    /\ md_files = <<RootDir \o <<NameXMD>>, RootDir \o <<NameXmd>>>>
    /\ out_list[1] = out_list[2]
    /\ content[out_list[1]] = md_files[2]

====
